---- MODULE Spec2Model ----
(***************************************************************************)
(* Model of the realtime console client (src/client/components/App.jsx,    *)
(* with the controls of SessionControls.jsx).  The state is the React      *)
(* state of App (apiKey, isKeyValid, isSessionActive, events, dataChannel),*)
(* the peerConnection ref, the browser objects the code creates            *)
(* (RTCPeerConnection, RTCDataChannel, microphone track), the requests in  *)
(* flight and the position of every running startSession() call.           *)
(*                                                                         *)
(* JavaScript is single threaded: every action below is one run-to-        *)
(* completion piece of code, i.e. a handler up to its next await, or the   *)
(* continuation after an await resolved or rejected.  The operations       *)
(* startSession, stopSession, sendClientEvent, sendTextMessage,            *)
(* validateApiKey and setApiKey are callable in every state in Spec; in    *)
(* SpecUI they are called by the controls of SessionControls.jsx only.     *)
(* The token relay of src/server.js is a process of its own (SpecRelay).   *)
(***************************************************************************)
EXTENDS Integers, Sequences, FiniteSets, TLC

\* ---------------------------------------------------------------- bounds
\* number of startSession() calls in one run; call i creates connection i,
\* channel i and microphone track i
MaxStarts == 2
\* length of the event history the model follows
MaxEvents == 2
\* number of validateApiKey probes in flight outside startSession
MaxProbes == 1
\* number of GET /token requests the relay serves in one run
MaxRequests == 3

Starts == 1..MaxStarts

\* credentials: none, one the provider accepts, one it rejects
Keys == {"", "good", "bad"}

VARIABLES
    apiKey,          \* App.jsx:11  useState(localStorage.getItem(..) || "")
    isKeyValid,      \* App.jsx:12
    isSessionActive, \* App.jsx:8
    events,          \* App.jsx:9   history, most recent first
    dataChannel,     \* App.jsx:10  0 = null, else the channel's number
    peerConnection,  \* App.jsx:13  peerConnection.current, 0 = null
    probes,          \* validateApiKey calls in flight outside startSession
    st,              \* the startSession() calls: position, captured key, alert
    pcs,             \* RTCPeerConnection i: "none", "open", "closed"
    dcs,             \* RTCDataChannel i: "none", "connecting", "open", "closed"
    tracks,          \* microphone track i: "none", "live", "stopped"
    validated,       \* the credentials whose most recent probe succeeded
    activating,      \* SessionControls.jsx:6 isActivating of the mounted
                     \* SessionStopped: 0 = false, i = true and set by the
                     \* handleStartSession that made call i
    listeners,       \* the channels the effect of App.jsx:176-194 has
                     \* attached its "message" and "open" listeners to
    relay,           \* server.js: the secret and the GET /token requests
    step             \* what the last step did: op, the operation or channel
                     \* callback it ran ("stopSession", "sendClientEvent",
                     \* "sendTextMessage", "open", "message", and "other"
                     \* for the rest); sent, the frames it handed to
                     \* dataChannel.send; ins, the entries it inserted in the
                     \* history, in order; logged, its console.error calls
                     \* in sendClientEvent; threw, whether the call ended
                     \* in an exception

vars == <<apiKey, isKeyValid, isSessionActive, events, dataChannel,
          peerConnection, probes, st, pcs, dcs, tracks, validated,
          activating, listeners, relay, step>>

\* a step that sends, inserts and logs nothing
Quiet(op) ==
    [op |-> op, sent |-> <<>>, ins |-> <<>>, logged |-> 0, threw |-> FALSE]

session == <<isSessionActive, dataChannel, peerConnection>>
objects == <<pcs, dcs, tracks>>
creds   == <<apiKey, isKeyValid, probes, validated>>
client  == <<apiKey, isKeyValid, isSessionActive, events, dataChannel,
             peerConnection, probes, st, pcs, dcs, tracks, validated,
             activating, listeners, step>>

\* ------------------------------------------------------------ the provider
\* GET /v1/models with the bearer credential (App.jsx:25): the provider
\* answers 200 to the credential it accepts and 401 to any other; the
\* request may also fail in the network
ProbeResponses(k) == IF k = "good" THEN {"200", "neterr"} ELSE {"401", "neterr"}

\* POST /v1/realtime with the offer (App.jsx:84): the answer, a refusal, or
\* a network failure
HandshakeResponses(k) ==
    IF k = "good" THEN {"200", "403", "neterr"} ELSE {"401", "neterr"}

\* the address of the validity probe (App.jsx:25)
ProbeUrl == [host |-> "api.openai.com", path |-> "/v1/models"]

\* a handshake that goes through the page's own backend
HandshakeUrlOfBackend == [host |-> "origin", path |-> "/v1/realtime"]

\* the address of the handshake POST (App.jsx:82-84)
HandshakeUrl == [host |-> "api.openai.com", path |-> "/v1/realtime"]

\* the requests of the client that are in flight, each with its address and
\* the credential of its Authorization header (App.jsx:25-29, 84-91):
\* the probes of validateApiKey, called on its own or by startSession, and
\* the handshake of every startSession that waits for the answer
InFlight ==
    {[url |-> ProbeUrl, bearer |-> k] : k \in probes}
      \cup {[url |-> ProbeUrl, bearer |-> st[i].key] :
               i \in {j \in Starts : st[j].pc = "probe"}}
      \cup {[url |-> HandshakeUrl, bearer |-> st[i].key] :
               i \in {j \in Starts : st[j].pc = "fetch"}}

\* response.ok (App.jsx:31, App.jsx:93)
ResponseOk(r) == r = "200"

\* validateApiKey's result (App.jsx:31-38): response.ok, false when fetch threw
IsValid(r) == IF r = "neterr" THEN FALSE ELSE ResponseOk(r)

\* the record of which credentials were last probed with success
Probed(k, r) == IF IsValid(r) THEN validated \cup {k} ELSE validated \ {k}

\* ------------------------------------------------------------- credentials
\* the relay before any request: process.env.OPENAI_API_KEY is read once
\* (server.js:12)
RelayInit(secret) ==
    [secret |-> secret,
     req |-> [q \in 1..MaxRequests |->
                [pc |-> "idle", upstream |-> "none", status |-> 0,
                 body |-> "none"]]]

\* App after its first render (App.jsx:8-14, 197-201), SessionStopped mounted
\* (SessionControls.jsx:6)
InitClient ==
    /\ apiKey \in Keys
    /\ isKeyValid = FALSE
    /\ isSessionActive = FALSE
    /\ events = <<>>
    /\ dataChannel = 0
    /\ peerConnection = 0
    \* App.jsx:197-201: a stored key is validated on load
    /\ probes = IF apiKey # "" THEN {apiKey} ELSE {}
    /\ st = [i \in Starts |-> [pc |-> "idle", key |-> "", alert |-> "none"]]
    /\ pcs = [i \in Starts |-> "none"]
    /\ dcs = [i \in Starts |-> "none"]
    /\ tracks = [i \in Starts |-> "none"]
    /\ validated = {}
    /\ activating = 0
    /\ listeners = {}
    /\ step = Quiet("other")

\* the client, next to a relay that has its secret and serves no request
Init ==
    /\ InitClient
    /\ relay = RelayInit(TRUE)

\* setApiKey(value) (SessionControls.jsx:19-22, App.jsx:226) and the effect
\* that persists a non-empty key (App.jsx:17-21)
setApiKey(k) ==
    /\ k # apiKey
    /\ apiKey' = k
    /\ step' = Quiet("other")
    /\ UNCHANGED <<isKeyValid, probes, validated, session, objects, st,
                   events, activating, listeners, relay>>

\* validateApiKey(apiKey) called on its own (App.jsx:230), up to its await
validateApiKey ==
    /\ Cardinality(probes \cup {apiKey}) <= MaxProbes
    /\ apiKey \notin probes
    /\ probes' = probes \cup {apiKey}
    /\ step' = Quiet("other")
    /\ UNCHANGED <<apiKey, isKeyValid, validated, session,
                   objects, st, events, activating, listeners, relay>>

\* the probe of such a call returns (App.jsx:31-38)
ProbeDone(k, r) ==
    /\ k \in probes
    /\ r \in ProbeResponses(k)
    /\ probes' = probes \ {k}
    /\ isKeyValid' = IsValid(r)
    /\ validated' = Probed(k, r)
    /\ step' = Quiet("other")
    /\ UNCHANGED <<apiKey, session, objects, st, events, activating,
                   listeners, relay>>

\* ------------------------------------------------------------ startSession
\* a check that lets the empty key through
KeyMissingNever(k) == FALSE

\* App.jsx:44
KeyMissing(k) == k = ""

\* App.jsx:49
NeedsProbe(valid) == ~valid

\* App.jsx:61-69: new RTCPeerConnection(), the audio element, then the call
\* waits for getUserMedia
CreatePeer(i, k) ==
    /\ pcs' = [pcs EXCEPT ![i] = "open"]
    /\ st' = [st EXCEPT ![i] = [pc |-> "mic", key |-> k, alert |-> "none"]]

\* the alert-and-return exits before the try's work (App.jsx:45-46, 52-53)
Reject(i, k, why) ==
    /\ st' = [st EXCEPT ![i] = [pc |-> "returned", key |-> k, alert |-> why]]
    /\ UNCHANGED pcs

\* a startSession without its catch block: the exception rejects the promise
FailUncaught(i, why) ==
    st' = [st EXCEPT ![i].pc = "rejected", ![i].alert = why]

\* the catch block (App.jsx:105-108): console.error and alert, nothing else
Fail(i, why) ==
    st' = [st EXCEPT ![i].pc = "failed", ![i].alert = why]

\* the promise of a startSession() call at this position has settled
Settled(pos) == pos \in {"returned", "failed", "done", "rejected"}

\* .finally(() => setIsActivating(false)) (SessionControls.jsx:14-16) runs
\* when the promise of call i settles; it resets the flag of the
\* SessionStopped that made the call, if that one is still mounted
Finally(i) ==
    activating' = IF Settled(st'[i].pc) /\ activating = i THEN 0
                  ELSE activating

\* startSession() runs up to its first await (App.jsx:41-55)
StartCall(i) ==
    /\ st[i].pc = "idle"
    /\ \A j \in Starts : j < i => st[j].pc # "idle"
    /\ IF KeyMissing(apiKey)
         THEN Reject(i, apiKey, "noKey")
         ELSE IF NeedsProbe(isKeyValid)
                THEN /\ st' = [st EXCEPT ![i] = [pc |-> "probe",
                                                 key |-> apiKey,
                                                 alert |-> "none"]]
                     /\ UNCHANGED pcs
                ELSE CreatePeer(i, apiKey)
    /\ step' = Quiet("other")
    /\ UNCHANGED <<creds, session, dcs, tracks, events, listeners, relay>>

\* startSession() is called (App.jsx:41)
startSession(i) ==
    /\ StartCall(i)
    /\ UNCHANGED activating

\* the start button is pressed (SessionControls.jsx:10-17); SessionStopped
\* is rendered only while the session is not active
\* (SessionControls.jsx:119-131)
handleStartSession(i) ==
    /\ ~isSessionActive
    /\ activating = 0
    /\ StartCall(i)
    /\ activating' = IF Settled(st'[i].pc) THEN 0 ELSE i

\* await validateApiKey(apiKey) returns inside startSession (App.jsx:50-55)
StartProbed(i, r) ==
    /\ st[i].pc = "probe"
    /\ r \in ProbeResponses(st[i].key)
    /\ isKeyValid' = IsValid(r)
    /\ validated' = Probed(st[i].key, r)
    /\ IF IsValid(r)
         THEN CreatePeer(i, st[i].key)
         ELSE Reject(i, st[i].key, "invalidKey")
    /\ step' = Quiet("other")
    /\ Finally(i)
    /\ UNCHANGED <<apiKey, probes, session, dcs, tracks,
                   events, listeners, relay>>

\* getUserMedia settles (App.jsx:69-79): on success the track is added, the
\* channel "oai-events" is created and stored with setDataChannel, and the
\* call waits for createOffer.  effectNow: the effect that attaches the
\* listeners runs before anything else does.
MicStep(i, granted, effectNow) ==
    /\ st[i].pc = "mic"
    /\ IF granted
         THEN /\ tracks' = [tracks EXCEPT ![i] = "live"]
              /\ dcs' = [dcs EXCEPT ![i] = "connecting"]
              /\ dataChannel' = i
              /\ st' = [st EXCEPT ![i].pc = "offer"]
              /\ listeners' = IF effectNow THEN listeners \cup {i}
                              ELSE listeners
         ELSE /\ Fail(i, "mic")
              /\ UNCHANGED <<tracks, dcs, dataChannel, listeners>>
    /\ step' = Quiet("other")
    /\ Finally(i)
    /\ UNCHANGED <<creds, isSessionActive, peerConnection, pcs, events,
                   relay>>

\* getUserMedia settles and the effect of App.jsx:176-194 runs right after
MicSettled(i, granted) == MicStep(i, granted, TRUE)

\* getUserMedia settles; the effect is left to run later
MicSettledEffectPending(i, granted) == MicStep(i, granted, FALSE)

\* the effect of App.jsx:176-194 runs for the channel that is the current
\* one when React renders
AttachListeners(d) ==
    /\ d # 0
    /\ dataChannel = d
    /\ d \notin listeners
    /\ listeners' = listeners \cup {d}
    /\ step' = Quiet("other")
    /\ UNCHANGED <<creds, session, objects, st, events, activating, relay>>

\* an await of startSession that only moves the call on, or throws
Await(i, from, to, ok) ==
    /\ st[i].pc = from
    /\ IF ok THEN st' = [st EXCEPT ![i].pc = to] ELSE Fail(i, "error")
    /\ step' = Quiet("other")
    /\ Finally(i)
    /\ UNCHANGED <<creds, session, objects, events, listeners, relay>>

\* App.jsx:79
OfferSettled(i, ok) == Await(i, "offer", "local", ok)

\* App.jsx:80
LocalSettled(i, ok) == Await(i, "local", "fetch", ok)

\* the handshake request returns (App.jsx:84-100): fetch throws, or the
\* response is read as the error text or as the answer
FetchSettled(i, r) ==
    /\ st[i].pc = "fetch"
    /\ r \in HandshakeResponses(st[i].key)
    /\ IF r = "neterr"
         THEN Fail(i, "error")
         ELSE st' = [st EXCEPT ![i].pc =
                        IF ResponseOk(r) THEN "answer" ELSE "errorText"]
    /\ step' = Quiet("other")
    /\ Finally(i)
    /\ UNCHANGED <<creds, session, objects, events, listeners, relay>>

\* App.jsx:94-95: the body of a non-success response is read and thrown
ErrorTextSettled(i) ==
    /\ st[i].pc = "errorText"
    /\ Fail(i, "status")
    /\ step' = Quiet("other")
    /\ Finally(i)
    /\ UNCHANGED <<creds, session, objects, events, listeners, relay>>

\* App.jsx:100
AnswerSettled(i, ok) == Await(i, "answer", "remote", ok)

\* setRemoteDescription settles (App.jsx:102-104): on success the
\* connection is retained in peerConnection.current
RemoteSettled(i, ok) ==
    /\ st[i].pc = "remote"
    /\ IF ok
         THEN /\ peerConnection' = i
              /\ st' = [st EXCEPT ![i].pc = "done"]
         ELSE /\ Fail(i, "error")
              /\ UNCHANGED peerConnection
    /\ step' = Quiet("other")
    /\ Finally(i)
    /\ UNCHANGED <<creds, isSessionActive, dataChannel, objects, events,
                   listeners, relay>>

\* ------------------------------------------------------------- stopSession
\* App.jsx:112-130
stopSession ==
    /\ dcs' = [d \in Starts |->
                 IF dcs[d] # "none" /\ (d = dataChannel \/ d = peerConnection)
                   THEN "closed" ELSE dcs[d]]
    /\ tracks' = [t \in Starts |->
                    IF t = peerConnection /\ tracks[t] = "live"
                      THEN "stopped" ELSE tracks[t]]
    /\ pcs' = [p \in Starts |-> IF p = peerConnection THEN "closed" ELSE pcs[p]]
    /\ isSessionActive' = FALSE
    /\ dataChannel' = 0
    /\ peerConnection' = 0
    /\ step' = Quiet("stopSession")
    /\ UNCHANGED <<creds, st, events, activating, listeners, relay>>

\* stopSession() when one of its teardown calls throws: the function has no
\* try, so the statements after the throwing call do not run and the
\* exception leaves stopSession.  at: the call that throws, "channel" for
\* dataChannel.close() (App.jsx:114), "track" for sender.track.stop()
\* (App.jsx:119), "transport" for peerConnection.current.close()
\* (App.jsx:124).
stopSessionThrows(at) ==
    /\ at = "channel" => dataChannel # 0
    /\ at = "track" => peerConnection # 0 /\ tracks[peerConnection] # "none"
    /\ at = "transport" => peerConnection # 0
    /\ dcs' = [d \in Starts |->
                 IF at # "channel" /\ d = dataChannel /\ dcs[d] # "none"
                   THEN "closed" ELSE dcs[d]]
    /\ tracks' = [t \in Starts |->
                    IF at = "transport" /\ t = peerConnection
                         /\ tracks[t] = "live"
                      THEN "stopped" ELSE tracks[t]]
    /\ step' = [Quiet("stopSession") EXCEPT !.threw = TRUE]
    /\ UNCHANGED <<creds, session, pcs, st, events, activating, listeners,
                   relay>>

\* ------------------------------------------------------------------ events
\* An event is [type, text, event_id, timestamp]: event_id 0 is an absent
\* identifier, timestamp "none" an absent timestamp, "given" one the event
\* came with and "clock" one taken from new Date().toLocaleTimeString().

\* the texts sendTextMessage is called with
Texts == {"hello"}

\* the message objects sendClientEvent is called with directly
Messages ==
    {[type |-> "response.create", text |-> "", event_id |-> 0,
      timestamp |-> "none"],
     [type |-> "response.create", text |-> "", event_id |-> 101,
      timestamp |-> "given"]}

\* the well-formed payloads the remote side sends
RemotePayloads ==
    {[type |-> "server.event", text |-> "", event_id |-> 0,
      timestamp |-> "none"],
     [type |-> "server.event", text |-> "", event_id |-> 201,
      timestamp |-> "given"]}

\* an update that adds the event at the tail
PrependAtTail(e, prev) == prev \o <<e>>

\* setEvents((prev) => [event, ...prev]) (App.jsx:145, App.jsx:185)
Prepend(e, prev) == <<e>> \o prev

\* a guard that tests the channel but not its readyState
ChannelUsableNoState(d) == d # 0

\* App.jsx:134
ChannelUsable(d) == d # 0 /\ dcs[d] = "open"

\* crypto.randomUUID() (App.jsx:136): an identifier no event has; the
\* model takes the least number that no event of the history carries
randomUUID(hist) ==
    CHOOSE u \in 1..(Len(hist) + 1) :
        /\ \A n \in DOMAIN hist : hist[n].event_id # u
        /\ \A v \in 1..(u - 1) : \E n \in DOMAIN hist : hist[n].event_id = v

\* message.event_id || crypto.randomUUID() (App.jsx:136)
WithId(m, hist) ==
    IF m.event_id # 0 THEN m ELSE [m EXCEPT !.event_id = randomUUID(hist)]

\* if (!x.timestamp) x.timestamp = now (App.jsx:142-144, App.jsx:181-183)
WithTimestamp(m) ==
    IF m.timestamp # "none" THEN m ELSE [m EXCEPT !.timestamp = "clock"]

\* sendClientEvent(m) (App.jsx:133-153) as a function of
\* L = [events, sent, ins, logged, threw]: the history and what the running
\* step has sent, inserted and logged so far.  RTCDataChannel.send throws on
\* a channel that is not open; the caller's later statements are skipped
\* after an exception.
sendClientEventOn(L, m) ==
    IF L.threw
      THEN L
      ELSE IF ChannelUsable(dataChannel)
        THEN LET sent == WithId(m, L.events)
                 stored == WithTimestamp(sent)
             IN  IF dcs[dataChannel] # "open"
                   THEN [L EXCEPT !.threw = TRUE]
                   ELSE [events |-> Prepend(stored, L.events),
                         sent |-> Append(L.sent, sent),
                         ins |-> Append(L.ins, stored),
                         logged |-> L.logged,
                         threw |-> FALSE]
        ELSE [L EXCEPT !.logged = @ + 1]

Log == [events |-> events, sent |-> <<>>, ins |-> <<>>, logged |-> 0,
        threw |-> FALSE]

SetLog(op, L) ==
    /\ events' = L.events
    /\ step' = [op |-> op, sent |-> L.sent, ins |-> L.ins,
                logged |-> L.logged, threw |-> L.threw]

\* room for n more sends within the bounds of the model
Room(n) ==
    ChannelUsable(dataChannel) => Len(events) + n <= MaxEvents

\* sendClientEvent(message) is called (App.jsx:133-153)
sendClientEvent(m) ==
    /\ Room(1)
    /\ SetLog("sendClientEvent", sendClientEventOn(Log, m))
    /\ UNCHANGED <<creds, session, objects, st, activating, listeners,
                   relay>>

\* App.jsx:157-169
TextEvent(text) ==
    [type |-> "conversation.item.create", text |-> text, event_id |-> 0,
     timestamp |-> "none"]

\* App.jsx:172
ResponseCreate ==
    [type |-> "response.create", text |-> "", event_id |-> 0,
     timestamp |-> "none"]

\* sendTextMessage(text) is called (App.jsx:156-173)
sendTextMessage(text) ==
    /\ Room(2)
    /\ SetLog("sendTextMessage",
              sendClientEventOn(sendClientEventOn(Log, TextEvent(text)),
                                ResponseCreate))
    /\ UNCHANGED <<creds, session, objects, st, activating, listeners,
                   relay>>

\* ------------------------------------------------ the channel's callbacks
\* The listeners of App.jsx:176-194 are attached to every channel stored
\* with setDataChannel and are never removed.

\* the channel opens once the connection has its remote description; the
\* "open" listener runs (App.jsx:189-192)
ChannelOpen(d) ==
    /\ dcs[d] = "connecting"
    /\ pcs[d] = "open"
    /\ st[d].pc = "done"
    /\ d \in listeners
    /\ dcs' = [dcs EXCEPT ![d] = "open"]
    /\ isSessionActive' = TRUE
    /\ events' = <<>>
    \* SessionStopped is unmounted and its state dropped
    \* (SessionControls.jsx:119-131)
    /\ activating' = 0
    /\ step' = Quiet("open")
    /\ UNCHANGED <<creds, dataChannel, peerConnection, pcs, tracks, st,
                   listeners, relay>>

\* the channel opens while no listener is attached to it: no code runs
ChannelOpenUnheard(d) ==
    /\ dcs[d] = "connecting"
    /\ pcs[d] = "open"
    /\ st[d].pc = "done"
    /\ d \notin listeners
    /\ dcs' = [dcs EXCEPT ![d] = "open"]
    /\ step' = Quiet("other")
    /\ UNCHANGED <<creds, session, pcs, tracks, st, events, activating,
                   listeners, relay>>

\* a well-formed message arrives; the "message" listener runs
\* (App.jsx:179-186)
ChannelMessage(d, p) ==
    /\ dcs[d] = "open"
    /\ d \in listeners
    /\ Len(events) < MaxEvents
    /\ events' = Prepend(WithTimestamp(p), events)
    /\ step' = [Quiet("message") EXCEPT !.ins = <<WithTimestamp(p)>>]
    /\ UNCHANGED <<creds, session, objects, st, activating, listeners,
                   relay>>

\* a payload that is not JSON arrives: JSON.parse throws in the listener
\* (App.jsx:180) and nothing is stored
ChannelMalformed(d) ==
    /\ dcs[d] = "open"
    /\ d \in listeners
    /\ step' = Quiet("other")
    /\ UNCHANGED <<creds, session, objects, st, events, activating,
                   listeners, relay>>

\* the remote side or the network closes an open channel; the code has no
\* "close" listener
ChannelClosed(d) ==
    /\ dcs[d] = "open"
    /\ dcs' = [dcs EXCEPT ![d] = "closed"]
    /\ step' = Quiet("other")
    /\ UNCHANGED <<creds, session, pcs, tracks, st, events, activating,
                   listeners, relay>>

\* ------------------------------------------------------------ the program
Next ==
    \/ \E k \in Keys : setApiKey(k)
    \/ validateApiKey
    \/ \E k \in Keys, r \in {"200", "401", "neterr"} : ProbeDone(k, r)
    \/ \E i \in Starts : startSession(i)
    \/ \E i \in Starts, r \in {"200", "401", "neterr"} : StartProbed(i, r)
    \/ \E i \in Starts, ok \in BOOLEAN : MicSettled(i, ok)
    \/ \E i \in Starts, ok \in BOOLEAN : OfferSettled(i, ok)
    \/ \E i \in Starts, ok \in BOOLEAN : LocalSettled(i, ok)
    \/ \E i \in Starts, r \in {"200", "401", "403", "neterr"} : FetchSettled(i, r)
    \/ \E i \in Starts : ErrorTextSettled(i)
    \/ \E i \in Starts, ok \in BOOLEAN : AnswerSettled(i, ok)
    \/ \E i \in Starts, ok \in BOOLEAN : RemoteSettled(i, ok)
    \/ stopSession
    \/ \E m \in Messages : sendClientEvent(m)
    \/ \E t \in Texts : sendTextMessage(t)
    \/ \E d \in Starts : ChannelOpen(d)
    \/ \E d \in Starts, p \in RemotePayloads : ChannelMessage(d, p)
    \/ \E d \in Starts : ChannelMalformed(d)
    \/ \E d \in Starts : ChannelClosed(d)

Spec == Init /\ [][Next]_vars

\* ------------------------------------------- the program behind its controls
\* The same client, with its operations called by the controls that are
\* rendered: SessionStopped while the session is not active, SessionActive
\* while it is (SessionControls.jsx:119-131).

\* handleSaveKey (SessionControls.jsx:19-22) in SessionStopped, or the input
\* of the key prompt, rendered while there is no key (App.jsx:215-227)
handleSaveKey(k) ==
    /\ ~isSessionActive \/ apiKey = ""
    /\ setApiKey(k)

\* the "Save API Key" button of the key prompt (App.jsx:228-233)
SaveApiKeyButton ==
    /\ apiKey = ""
    /\ validateApiKey

\* the "disconnect" button of SessionActive (SessionControls.jsx:101-103)
Disconnect ==
    /\ isSessionActive
    /\ stopSession

\* handleSendClientEvent of SessionActive (SessionControls.jsx:71-74, 80, 92)
handleSendClientEvent(text) ==
    /\ isSessionActive
    /\ sendTextMessage(text)

\* the steps that no control calls: awaits that settle, channel callbacks
Background ==
    \/ \E k \in Keys, r \in {"200", "401", "neterr"} : ProbeDone(k, r)
    \/ \E i \in Starts, r \in {"200", "401", "neterr"} : StartProbed(i, r)
    \/ \E i \in Starts, ok \in BOOLEAN : OfferSettled(i, ok)
    \/ \E i \in Starts, ok \in BOOLEAN : LocalSettled(i, ok)
    \/ \E i \in Starts, r \in {"200", "401", "403", "neterr"} : FetchSettled(i, r)
    \/ \E i \in Starts : ErrorTextSettled(i)
    \/ \E i \in Starts, ok \in BOOLEAN : AnswerSettled(i, ok)
    \/ \E i \in Starts, ok \in BOOLEAN : RemoteSettled(i, ok)
    \/ \E d \in Starts : ChannelOpen(d)
    \/ \E d \in Starts, p \in RemotePayloads : ChannelMessage(d, p)
    \/ \E d \in Starts : ChannelMalformed(d)
    \/ \E d \in Starts : ChannelClosed(d)

Controls ==
    \/ \E k \in Keys : handleSaveKey(k)
    \/ SaveApiKeyButton
    \/ \E i \in Starts : handleStartSession(i)
    \/ Disconnect
    \/ \E t \in Texts : handleSendClientEvent(t)

NextUI ==
    \/ Controls
    \/ Background
    \/ \E i \in Starts, ok \in BOOLEAN : MicSettled(i, ok)

SpecUI == Init /\ [][NextUI]_vars

\* the awaited step of startSession() call i settles: the probe
\* (App.jsx:50), getUserMedia (App.jsx:69), createOffer (App.jsx:79),
\* setLocalDescription (App.jsx:80), the handshake fetch (App.jsx:84), the
\* reading of its body (App.jsx:94, 100), setRemoteDescription (App.jsx:102)
Settle(i) ==
    \/ \E r \in {"200", "401", "neterr"} : StartProbed(i, r)
    \/ \E ok \in BOOLEAN : MicSettled(i, ok)
    \/ \E ok \in BOOLEAN : OfferSettled(i, ok)
    \/ \E ok \in BOOLEAN : LocalSettled(i, ok)
    \/ \E r \in {"200", "401", "403", "neterr"} : FetchSettled(i, r)
    \/ ErrorTextSettled(i)
    \/ \E ok \in BOOLEAN : AnswerSettled(i, ok)
    \/ \E ok \in BOOLEAN : RemoteSettled(i, ok)

\* the program behind its controls when every awaited step of startSession
\* eventually resolves or rejects
SpecLive == SpecUI /\ \A i \in Starts : WF_vars(Settle(i))

\* The program behind its controls with the effect of App.jsx:176-194 as a
\* step of its own: React runs it after the render that follows
\* setDataChannel, and nothing in the code orders it with the awaits of
\* startSession or with the callbacks of the channel.
NextEffect ==
    \/ Controls
    \/ Background
    \/ \E i \in Starts, ok \in BOOLEAN : MicSettledEffectPending(i, ok)
    \/ \E d \in Starts : AttachListeners(d)
    \/ \E d \in Starts : ChannelOpenUnheard(d)

SpecEffect == Init /\ [][NextEffect]_vars

\* the "disconnect" button when a teardown call of the platform throws
DisconnectThrows(at) ==
    /\ isSessionActive
    /\ stopSessionThrows(at)

\* the program behind its controls on a platform whose close() and stop()
\* calls may throw
NextFaulty ==
    \/ NextUI
    \/ \E at \in {"channel", "track", "transport"} : DisconnectThrows(at)

SpecFaulty == Init /\ [][NextFaulty]_vars

\* ----------------------------------------------------------- the token relay
\* src/server.js: GET /token.  A request is [pc, upstream, status, body]:
\* pc "idle" (not made), "fetch" (waiting for the provider), "json" (reading
\* the provider's body), "sent" (answered); upstream, what the provider
\* answered; status and body, what the relay answered.
Requests == 1..MaxRequests

\* POST /v1/realtime/sessions with the server's secret (server.js:29-42): a
\* session credential, a refusal, or a network failure
SessionResponses == {"200", "401", "neterr"}

\* res.status(500).json({error: {message, type: "server_error"}})
\* (server.js:21-26, 48-53)
ServerError(r, up) ==
    [pc |-> "sent", upstream |-> up, status |-> 500, body |-> "server_error"]

\* res.json(data) (server.js:44-45): the provider's body, with the default
\* status 200, whatever the provider's status was
Relayed(r) ==
    [r EXCEPT !.pc = "sent", !.status = 200,
              !.body = IF r.upstream = "200" THEN "session"
                       ELSE "upstreamError"]

SetRequest(q, r) ==
    /\ relay' = [relay EXCEPT !.req[q] = r]
    /\ UNCHANGED client

\* GET /token arrives (server.js:18-29)
TokenRequest(q) ==
    /\ relay.req[q].pc = "idle"
    /\ SetRequest(q, IF ~relay.secret
                       THEN ServerError(relay.req[q], "none")
                       ELSE [relay.req[q] EXCEPT !.pc = "fetch"])

\* the fetch to the provider settles (server.js:29-44); fetch throws on a
\* network failure only
TokenFetched(q, r) ==
    /\ relay.req[q].pc = "fetch"
    /\ SetRequest(q, IF r = "neterr"
                       THEN ServerError(relay.req[q], r)
                       ELSE [relay.req[q] EXCEPT !.pc = "json",
                                                 !.upstream = r])

\* response.json() settles (server.js:44-53): it throws when the body is
\* not JSON
TokenParsed(q, isJson) ==
    /\ relay.req[q].pc = "json"
    /\ SetRequest(q, IF isJson
                       THEN Relayed(relay.req[q])
                       ELSE ServerError(relay.req[q], relay.req[q].upstream))

NextRelay ==
    \/ \E q \in Requests : TokenRequest(q)
    \/ \E q \in Requests, r \in SessionResponses : TokenFetched(q, r)
    \/ \E q \in Requests, isJson \in BOOLEAN : TokenParsed(q, isJson)

\* the relay with or without its secret, the client left alone
InitRelay ==
    /\ InitClient
    /\ apiKey = ""
    /\ relay \in {RelayInit(secret) : secret \in BOOLEAN}

SpecRelay == InitRelay /\ [][NextRelay]_vars

\* ----------------------------------------------------------------- claims
Live(i) == pcs[i] = "open" \/ dcs[i] \in {"connecting", "open"}
               \/ tracks[i] = "live"

\* C1: after stop() the session is Idle, no transport, channel or track
\* handle is retained, and every transport and channel that was created is
\* closed and every acquired track stopped.
C1_StopReleasesEverything ==
    step.op = "stopSession" =>
        /\ ~isSessionActive
        /\ dataChannel = 0
        /\ peerConnection = 0
        /\ \A i \in Starts : ~Live(i)

\* C2: a start() that failed at any step surfaced an error and rolled back:
\* its transport is closed, its channel is closed and is not the current
\* channel, its microphone track is stopped.
C2_FailedStartRolledBack ==
    \A i \in Starts :
        st[i].pc = "failed" =>
            /\ st[i].alert # "none"
            /\ ~Live(i)
            /\ dataChannel # i

\* C3: a start() that was denied the microphone has created no transport
\* connection and no event channel.
C3_MicDeniedBeforeTransport ==
    \A i \in Starts :
        st[i].alert = "mic" => pcs[i] = "none" /\ dcs[i] = "none"

\* a start() that returned at once: nothing created, nothing touched
C4_RejectedStart(i) ==
    /\ st'[i].pc = "returned"
    /\ pcs'[i] = "none" /\ dcs'[i] = "none" /\ tracks'[i] = "none"
    /\ UNCHANGED <<session, objects>>

\* C4: a start() called with no credential, or whose validity probe did not
\* succeed, returns with an alert in that very step, has created no
\* transport, channel or track, and leaves the session state and every
\* handle as they were.
C4_NoCredentialNoTransport ==
    [][\A i \in Starts :
          /\ (st[i].pc = "idle" /\ st'[i].pc # "idle" /\ apiKey = "")
                => st'[i].alert = "noKey" /\ C4_RejectedStart(i)
          /\ (st[i].pc = "probe" /\ st'[i].pc # "probe" /\ ~isKeyValid')
                => st'[i].alert = "invalidKey" /\ C4_RejectedStart(i)
          /\ st'[i].alert \in {"noKey", "invalidKey"}
                => st'[i].pc = "returned" /\ ~Live(i)']_vars

C4_Witness ==
    \E i, j \in Starts :
        /\ st[i].alert = "noKey"
        /\ st[j].alert = "invalidKey"
        /\ st[j].key = "bad"

\* C5: start() creates a transport, and issues the handshake, only with a
\* credential whose own most recent probe succeeded.
C5_TransportOnlyForValidatedKey ==
    [][\A i \in Starts :
          /\ (pcs[i] = "none" /\ pcs'[i] = "open") => st'[i].key \in validated'
          /\ (st[i].pc # "fetch" /\ st'[i].pc = "fetch")
                => st'[i].key \in validated']_vars

\* C6: no frame handed to the channel carries a timestamp, and every history
\* entry recorded for a sent message has one.
C6_NoTimestampOnWire ==
    /\ \A n \in DOMAIN step.sent : step.sent[n].timestamp = "none"
    /\ step.op \in {"sendClientEvent", "sendTextMessage"} =>
          \A n \in DOMAIN step.ins : step.ins[n].timestamp # "none"

\* C7: every event in the history has an identifier and the identifiers in
\* the history are pairwise distinct.
C7_HistoryIdsUnique ==
    \A a, b \in DOMAIN events :
        /\ events[a].event_id # 0
        /\ a # b => events[a].event_id # events[b].event_id

Reverse(s) == [n \in 1..Len(s) |-> s[Len(s) + 1 - n]]

\* C8: every insertion, by a local send or by a remote arrival, puts exactly
\* its entry at index 0 of the history and keeps all earlier entries in
\* place; a step that inserts nothing leaves the history alone, but for the
\* reset when a channel opens.
C8_InsertionsPrepend ==
    [][/\ events' = Reverse(step'.ins) \o
                       (IF step'.op = "open" THEN <<>> ELSE events)
       /\ step'.op = "message" => Len(step'.ins) <= 1
       /\ step'.op \in {"sendClientEvent", "sendTextMessage"}
             => Len(step'.ins) = Len(step'.sent)]_vars

C8_Witness ==
    /\ step.op = "message"
    /\ Len(step.ins) = 1
    /\ Len(events) = 2
    /\ events[1].type = "server.event"
    /\ events[2].type = "response.create"

\* C9: in an Active session sendTextMessage(text) transmits exactly two
\* frames, a conversation.item.create carrying the text and then a
\* response.create, and their two entries are the newest of the history.
C9_TextMessageTwoFrames ==
    (step.op = "sendTextMessage" /\ isSessionActive) =>
        /\ Len(step.sent) = 2
        /\ step.sent[1].type = "conversation.item.create"
        /\ step.sent[1].text \in Texts
        /\ step.sent[2].type = "response.create"
        /\ Len(step.ins) = 2
        /\ Len(events) >= 2
        /\ events[2] = step.ins[1]
        /\ events[1] = step.ins[2]
        /\ events[2].event_id = step.sent[1].event_id
        /\ events[1].event_id = step.sent[2].event_id

\* C10: sendEvent with the channel absent or not open transmits no frame,
\* does not throw, records one diagnostic and leaves the history unchanged.
C10_ClosedChannelSendIsReportedNoOp ==
    [][(step'.op = "sendClientEvent"
          /\ (dataChannel = 0 \/ dcs[dataChannel] # "open"))
        => /\ step'.sent = <<>>
           /\ ~step'.threw
           /\ step'.logged = 1
           /\ step'.ins = <<>>
           /\ events' = events]_vars

C10_Witness ==
    /\ step.op = "sendClientEvent"
    /\ step.logged = 1
    /\ dataChannel # 0
    /\ dcs[dataChannel] = "closed"
    /\ isSessionActive

\* C11: the session is never marked Active before the open signal of the
\* current channel has fired (the current channel is present and has left
\* "connecting"; a current channel only closes after it opened), and the
\* step in which an open signal fires leaves the history empty and the
\* session Active.
C11_ActiveOnlyAfterCurrentChannelOpened ==
    /\ isSessionActive =>
           dataChannel # 0 /\ dcs[dataChannel] \in {"open", "closed"}
    /\ step.op = "open" => isSessionActive /\ events = <<>>

\* C12: stop() is fail-soft: also when one of its teardown calls throws, the
\* call does not end in an exception, no handle is retained and the session
\* is not active.
C12_StopIsFailSoft ==
    step.op = "stopSession" =>
        /\ ~step.threw
        /\ ~isSessionActive
        /\ dataChannel = 0 /\ peerConnection = 0

\* C13: GET /token answers 500 with the structured server_error body
\* whenever the secret is unconfigured or the upstream call failed (a
\* network failure or a non-success response), and answers 200 with the
\* provider's session credential only when the upstream call succeeded.
C13_RelayStatus ==
    \A q \in Requests :
        LET r == relay.req[q]
        IN  r.pc = "sent" =>
              /\ (~relay.secret \/ r.upstream # "200")
                    => r.status = 500 /\ r.body = "server_error"
              /\ r.status = 200 => r.upstream = "200" /\ r.body = "session"

\* C14: in every reachable state every request of the client that carries
\* the credential is addressed to the provider, as the validity probe or
\* as the handshake POST; none is addressed to the page's own backend.
C14_CredentialOnlyToProvider ==
    \A r \in InFlight :
        /\ r.url.host = "api.openai.com"
        /\ r.url.path \in {"/v1/models", "/v1/realtime"}

\* a handshake and a probe in flight at once, the handshake with the stored
\* credential
C14_Witness ==
    /\ apiKey = "good"
    /\ [url |-> HandshakeUrl, bearer |-> apiKey] \in InFlight
    /\ \E r \in InFlight : r.url = ProbeUrl

\* C15: whatever the sequence of presses of the start button, at most one
\* transport connection that is not closed and at most one event channel
\* that is not closed exist at any time.
C15_AtMostOneTransportAndChannel ==
    /\ Cardinality({i \in Starts : pcs[i] = "open"}) <= 1
    /\ Cardinality({i \in Starts : dcs[i] \in {"connecting", "open"}}) <= 1

\* C16: the message and open listeners are attached to a new channel before
\* its start() goes on to the offer and handshake steps, so a start() that
\* is at or past the offer step has its channel's listeners attached, and
\* no channel is open (able to deliver its open signal or a message)
\* without its listeners.
C16_ListenersBeforeOffer ==
    /\ \A i \in Starts :
          st[i].pc \in {"offer", "local", "fetch", "errorText", "answer",
                        "remote", "done"} => i \in listeners
    /\ \A d \in Starts : dcs[d] = "open" => d \in listeners

\* C17: whenever the session is Idle (no start() in progress, the activating
\* flag and the active flag false) no transport handle and no channel
\* handle is retained.
C17_IdleRetainsNothing ==
    (/\ \A i \in Starts : st[i].pc = "idle" \/ Settled(st[i].pc)
     /\ activating = 0
     /\ ~isSessionActive)
        => peerConnection = 0 /\ dataChannel = 0

\* C18: whenever the session is marked Active the transport handle is
\* retained, the transport is not closed and the current channel is open
\* (so that sendEvent transmits and stop() closes the transport).
C18_ActiveHasOpenChannel ==
    isSessionActive =>
        /\ peerConnection # 0 /\ pcs[peerConnection] = "open"
        /\ dataChannel # 0 /\ dcs[dataChannel] = "open"

\* C19: if every awaited step eventually resolves or rejects, every start()
\* that was called eventually completes with its promise resolved
\* (returned early, failed into its catch block, or done), and the
\* activating flag it set is eventually reset.
C19_StartCompletes ==
    \A i \in Starts :
        (st[i].pc # "idle")
            ~> (st[i].pc \in {"returned", "failed", "done"}
                  /\ activating # i)

\* one start() ran to its end, another failed in its catch block, and the
\* activating flag is reset
C19_Witness ==
    /\ \E i \in Starts : st[i].pc = "done"
    /\ \E i \in Starts : st[i].pc = "failed"
    /\ activating = 0
====
